---- MODULE Spec2Model ----
(***************************************************************************)
(* A model of gui.py, the Streamlit front end that runs admixtools' qpadm  *)
(* through rpy2 and reports its result.                                    *)
(*                                                                         *)
(* Text is modelled character by character: a string is a sequence of      *)
(* character tokens.  "DQ" is the double quote, "BS" the backslash, "CM"   *)
(* the comma, "SP" the blank, "NL" the newline; a letter stands for        *)
(* itself.  Numbers are integers (a fixed unit of the estimator's output); *)
(* a quotient is an exact fraction [num, den], with den = 0 for the        *)
(* floating point infinities and NaN.                                      *)
(***************************************************************************)
EXTENDS Integers, Sequences, FiniteSets, TLC

VARIABLES
    session_state,  \* per browser session: the key r_env_setup_minimal
    pc,             \* per session: where its script execution stands
    locals,         \* per session: the script's variables of its last execution
    out,            \* per session: what its last execution put on the page
    R,              \* the embedded R interpreter's global environment (one per process)
    initAttempts,   \* how many times r('library(admixtools)') was executed
    config,         \* config.get('prefix'), as config.txt gives it
    oracle,         \* the behaviour of admixtools::qpadm on the configured dataset
    calc,           \* the result transformation applied to one estimator output
    esc             \* the construction and evaluation of one R vector literal

vars == <<session_state, pc, locals, out, R, initAttempts, config, oracle, calc, esc>>

----------------------------------------------------------------------------
(* Bounds *)

NumSessions == 2
MaxRows == 2
MaxWeight == 1
MaxSe == 1
MaxPops == 2
MaxNameLen == 2

----------------------------------------------------------------------------
(* Helpers on sequences and numbers *)

Range(s) == {s[i] : i \in 1..Len(s)}

SeqsUpTo(S, n) == UNION {[1..k -> S] : k \in 0..n}

Abs(x) == IF x < 0 THEN -x ELSE x

RECURSIVE GCD(_, _)
GCD(a, b) == IF b = 0 THEN a ELSE GCD(b, a % b)

----------------------------------------------------------------------------
(* Population names handed to R: lines 137-140 *)

\* pop.replace('"', '\\"'): every double quote becomes backslash, double quote
RECURSIVE Escape(_)
Escape(pop) ==
    IF pop = <<>> THEN <<>>
    ELSE (IF Head(pop) = "DQ" THEN <<"BS", "DQ">> ELSE <<Head(pop)>>)
         \o Escape(Tail(pop))

\* f'"{...}"'
Quoted(pop) == <<"DQ">> \o Escape(pop) \o <<"DQ">>

\* ", ".join(items)
RECURSIVE Join(_)
Join(items) ==
    IF items = <<>> THEN <<>>
    ELSE IF Len(items) = 1 THEN items[1]
    ELSE items[1] \o <<"CM", "SP">> \o Join(Tail(items))

RVector(pops) == Join([i \in 1..Len(pops) |-> Quoted(pops[i])])

\* What R's parser makes of the arguments of c(...): the character vector
\* they denote, or a syntax error.
RError == [ok |-> FALSE, value |-> <<>>]

REscapes == [n |-> "NL", DQ |-> "DQ", BS |-> "BS", a |-> "BEL", b |-> "BKSP"]

RECURSIVE RArgs(_, _)
RECURSIVE RString(_, _, _)
RECURSIVE RAfter(_, _)

\* at the start of an argument: blanks, then a string constant
RArgs(t, acc) ==
    IF t = <<>> THEN RError
    ELSE IF Head(t) = "SP" THEN RArgs(Tail(t), acc)
    ELSE IF Head(t) = "DQ" THEN RString(Tail(t), <<>>, acc)
    ELSE RError

\* inside a string constant
RString(t, cur, acc) ==
    IF t = <<>> THEN RError
    ELSE IF Head(t) = "DQ" THEN RAfter(Tail(t), Append(acc, cur))
    ELSE IF Head(t) = "BS" THEN
        IF Len(t) >= 2 /\ t[2] \in DOMAIN REscapes
        THEN RString(SubSeq(t, 3, Len(t)), Append(cur, REscapes[t[2]]), acc)
        ELSE RError
    ELSE RString(Tail(t), Append(cur, Head(t)), acc)

\* after a string constant: the end, or a comma and the next argument
RAfter(t, acc) ==
    IF t = <<>> THEN [ok |-> TRUE, value |-> acc]
    ELSE IF Head(t) = "SP" THEN RAfter(Tail(t), acc)
    ELSE IF Head(t) = "CM" THEN RArgs(Tail(t), acc)
    ELSE RError

\* c() with no argument is NULL, the empty vector
REval(text) == IF text = <<>> THEN [ok |-> TRUE, value |-> <<>>] ELSE RArgs(text, <<>>)

----------------------------------------------------------------------------
(* The form: lines 47-50 and 86-117 *)

IsSpace(c) == c \in {"SP", "NL"}

RECURSIVE LStrip(_)
LStrip(s) == IF s # <<>> /\ IsSpace(Head(s)) THEN LStrip(Tail(s)) ELSE s

RECURSIVE RStrip(_)
RStrip(s) ==
    IF s # <<>> /\ IsSpace(s[Len(s)]) THEN RStrip(SubSeq(s, 1, Len(s) - 1)) ELSE s

\* str.strip()
Strip(s) == RStrip(LStrip(s))

NotBlank(line) == Strip(line) # <<>>

\* [pop.strip() for pop in text.split('\n') if pop.strip()], text given by its lines
ManualPops(lines) ==
    LET kept == SelectSeq(lines, NotBlank)
    IN  [i \in 1..Len(kept) |-> Strip(kept[i])]

predefined_left == [Europe |-> << <<"a">>, <<"b">> >>]

predefined_right == [Outgroups |-> << <<"x">>, <<"y">> >>]

\* the list a column of the form yields: lines 94-102 and 109-117
Pops(input, predefined) ==
    IF input.choice = "Use predefined list"
    THEN IF input.name = "" THEN <<>> ELSE predefined[input.name]
    ELSE IF input.text = <<>> THEN <<>> ELSE ManualPops(input.text)

----------------------------------------------------------------------------
(* Numbers: floating point quotients as fractions *)

Zero == [num |-> 0, den |-> 1]

NaN == [num |-> 0, den |-> 0]

FromInt(n) == [num |-> n, den |-> 1]

Sign(x) == IF x > 0 THEN 1 ELSE IF x < 0 THEN -1 ELSE 0

\* a / b in floating point: the fraction in lowest terms; +-inf or NaN for b = 0
Ratio(a, b) ==
    IF b = 0 THEN [num |-> Sign(a), den |-> 0]
    ELSE LET g == GCD(Abs(a), Abs(b))
             sg == Sign(b)
         IN  [num |-> (sg * a) \div g, den |-> (sg * b) \div g]

RatAdd(x, y) ==
    IF x.den = 0 \/ y.den = 0
    THEN (IF x.den = 0 /\ y.den = 0 /\ x.num = y.num THEN x
          ELSE IF x.den = 0 /\ y.den # 0 THEN x
          ELSE IF y.den = 0 /\ x.den # 0 THEN y
          ELSE NaN)
    ELSE Ratio(x.num * y.den + y.num * x.den, x.den * y.den)

RatDivInt(x, n) == IF x.den = 0 THEN x ELSE Ratio(x.num, x.den * n)

RECURSIVE RatSum(_)
RatSum(xs) == IF xs = <<>> THEN Zero ELSE RatAdd(Head(xs), RatSum(Tail(xs)))

\* the mean pivot_table puts into a cell (values is not empty)
Mean(xs) == RatDivInt(RatSum(xs), Len(xs))

----------------------------------------------------------------------------
(* Ordering of names, as pandas sorts the pivot's index and columns *)

CodePoint == [BEL |-> 7, BKSP |-> 8, NL |-> 10, SP |-> 32, DQ |-> 34, CM |-> 44,
              BS |-> 92, a |-> 97, b |-> 98, n |-> 110, x |-> 120, y |-> 121]

RECURSIVE NameLess(_, _)
NameLess(u, v) ==
    IF v = <<>> THEN FALSE
    ELSE IF u = <<>> THEN TRUE
    ELSE IF Head(u) = Head(v) THEN NameLess(Tail(u), Tail(v))
    ELSE CodePoint[Head(u)] < CodePoint[Head(v)]

RECURSIVE Sorted(_)
Sorted(S) ==
    IF S = {} THEN <<>>
    ELSE LET m == CHOOSE u \in S : \A v \in S \ {u} : NameLess(u, v)
         IN  <<m>> \o Sorted(S \ {m})

----------------------------------------------------------------------------
(* The estimator's output: lines 143-145 *)

\* A data frame: its columns and its rows; null is R's NULL.
NullTable == [null |-> TRUE, cols |-> {}, rows |-> <<>>]

Table(cols, rows) == [null |-> FALSE, cols |-> cols, rows |-> rows]

WeightCols == {"target", "left", "weight", "se"}

FitCols == {"p", "chisq"}

\* df[col].iloc[0] raises on NULL, on a missing column and on an empty frame
CanReadFirst(df, col) == ~df.null /\ col \in df.cols /\ Len(df.rows) > 0

----------------------------------------------------------------------------
(* StatisticsDeriver: line 155 *)

\* the mutant: the guard on se dropped
ZScoreUnguarded(row) == Ratio(row.weight, row.se)

\* a / b on Python floats raises ZeroDivisionError for b = 0
Raised(z) == z.den = 0

\* row['weight'] / row['se'] if row['se'] != 0 else 0
ZScore(row) == IF row.se # 0 THEN Ratio(row.weight, row.se) ELSE Zero

\* the lambda reads se, and weight only when se is not 0; what it raises,
\* apply raises
CanDerive(weights) ==
    /\ "se" \in weights.cols
    /\ (\E i \in 1..Len(weights.rows) : weights.rows[i].se # 0)
           => "weight" \in weights.cols
    /\ \A i \in 1..Len(weights.rows) : ~Raised(ZScore(weights.rows[i]))

\* weights['zscore'] = weights.apply(..., axis=1)
Derive(weights) ==
    Table(weights.cols \cup {"zscore"},
          [i \in 1..Len(weights.rows) |->
              [target |-> weights.rows[i].target,
               left   |-> weights.rows[i].left,
               weight |-> weights.rows[i].weight,
               se     |-> weights.rows[i].se,
               zscore |-> ZScore(weights.rows[i])]])

----------------------------------------------------------------------------
(* SummaryComposer: lines 159-177 *)

\* the mutant: rows of weight 0 kept
PlotDataNonNegative(weights) ==
    LET Kept(row) == row.weight >= 0
    IN  SelectSeq(weights.rows, Kept)

\* weights[weights['weight'] > 0]
PlotData(weights) ==
    LET Positive(row) == row.weight > 0
    IN  SelectSeq(weights.rows, Positive)

\* ax.pie(plot_data['weight'], labels=plot_data['left'], ...)
Pie(plot_data) ==
    [i \in 1..Len(plot_data) |->
        [label |-> plot_data[i].left, size |-> plot_data[i].weight]]

CanPlot(weights) == {"weight", "left"} \subseteq weights.cols

\* the lines of stats_text, in order
StatsText(weights, pValue, x2) ==
    << [kind |-> "P-Value", source |-> <<>>, se |-> 0, value |-> FromInt(pValue)],
       [kind |-> "chisq", source |-> <<>>, se |-> 0, value |-> FromInt(x2)],
       [kind |-> "rule", source |-> <<>>, se |-> 0, value |-> Zero],
       [kind |-> "header", source |-> <<>>, se |-> 0, value |-> Zero],
       [kind |-> "rule", source |-> <<>>, se |-> 0, value |-> Zero] >>
    \o [i \in 1..Len(weights.rows) |->
           [kind   |-> "row",
            source |-> weights.rows[i].left,
            se     |-> weights.rows[i].se * 100,
            value  |-> weights.rows[i].zscore]]

CanStats(weights) == {"left", "se", "zscore"} \subseteq weights.cols

StatsHeaderLines == 5

----------------------------------------------------------------------------
(* ReportAssembler: lines 190-198 *)

CanPivot(df_weights) ==
    {"target", "left", "weight", "se", "zscore"} \subseteq df_weights.cols

TargetsOf(rows) == {rows[i].target : i \in 1..Len(rows)}

SourcesOf(rows) == {rows[i].left : i \in 1..Len(rows)}

\* the values of one cell of pivot_table(index='target', columns='left')
CellRows(rows, t, s) ==
    LET Here(row) == row.target = t /\ row.left = s
    IN  SelectSeq(rows, Here)

Cell(rows, t, s, value) ==
    LET here == CellRows(rows, t, s)
    IN  IF here = <<>> THEN NaN
        ELSE Mean([i \in 1..Len(here) |->
                     IF value = "weight" THEN FromInt(here[i].weight)
                     ELSE IF value = "se" THEN FromInt(here[i].se)
                     ELSE here[i].zscore])

\* one pivot, with its suffix added: the column names and, per target, the cells
PivotNames(rows, suffix) ==
    LET srcs == Sorted(SourcesOf(rows))
    IN  [i \in 1..Len(srcs) |-> [source |-> srcs[i], suffix |-> suffix]]

PivotCells(rows, t, value) ==
    LET srcs == Sorted(SourcesOf(rows))
    IN  [i \in 1..Len(srcs) |-> Cell(rows, t, srcs[i], value)]

\* convert_df_to_csv: the header and the data rows of the table written
convert_df_to_csv(df_weights, df_rankdrop) ==
    LET rows == df_weights.rows
        tgts == Sorted(TargetsOf(rows))
    IN  [header |->
            << [source |-> <<>>, suffix |-> "target"] >>
            \o PivotNames(rows, "_weight")
            \o PivotNames(rows, "_se")
            \o PivotNames(rows, "_zscore")
            \o << [source |-> <<>>, suffix |-> "p-value"],
                  [source |-> <<>>, suffix |-> "x2"] >>,
         data |->
            [k \in 1..Len(tgts) |->
                [target |-> tgts[k],
                 cells  |-> PivotCells(rows, tgts[k], "weight")
                            \o PivotCells(rows, tgts[k], "se")
                            \o PivotCells(rows, tgts[k], "zscore")
                            \o << FromInt(df_rankdrop.rows[1].p),
                                  FromInt(df_rankdrop.rows[1].chisq) >>]]]

----------------------------------------------------------------------------
(* What a script execution puts on the page *)

Message(kind, text) == [kind |-> kind, text |-> text]

ErrStartup == Message("error", "Failed to load R libraries on startup")
ErrUninitialized == Message("error", "R environment could not be initialized")
ErrNoPrefix == Message("error", "Prefix path not defined in config.txt")
ErrIncomplete == Message("error", "Please define the Target, Left list, and Right list")
Info == Message("info", "Target, Sources (Left), Outgroups (Right)")
ErrInfeasible == Message("error", "Analysis failed. No feasible model was found.")
Success == Message("success", "Analysis complete!")
Critical == Message("error", "A critical error occurred during execution.")
Balloons == Message("balloons", "")

Chart(derived, pValue, x2, target_name) ==
    [kind  |-> "pyplot",
     pie   |-> Pie(PlotData(derived)),
     stats |-> StatsText(derived, pValue, x2),
     title |-> target_name]

Download(csv, target_name) ==
    [kind |-> "download_button", data |-> csv, file_name |-> target_name]

----------------------------------------------------------------------------
(* The handler of "Start qpAdm Analysis": lines 120-211 *)

\* the mutant: the key is only looked for, its value not read
EnvKeyPresent(flag) == flag # "absent"

\* st.session_state.get('r_env_setup_minimal'): line 121
EnvReady(flag) == flag = "True"

\* not prefix_path: line 123
NoPrefix(prefix_path) == prefix_path \in {"None", ""}

\* the mutant: the right list is not looked at
IncompleteIgnoringRight(target_name, left_pops, right_pops) ==
    target_name = <<>> \/ left_pops = <<>>

\* not target_name or not left_pops or not right_pops: line 125
Incomplete(target_name, left_pops, right_pops) ==
    target_name = <<>> \/ left_pops = <<>> \/ right_pops = <<>>

\* the branch the handler takes: lines 121-127
Validate(flag, l) ==
    IF ~EnvReady(flag) THEN "uninitialized"
    ELSE IF NoPrefix(l.prefix_path) THEN "no prefix"
    ELSE IF Incomplete(l.target_name, l.left_pops, l.right_pops) THEN "incomplete"
    ELSE "run"

\* the mutant: the fit table is tested instead of the weights
InfeasibleByRankdrop(result) == result.rankdrop.null

\* weights is None: line 147
Infeasible(result) == result.weights.null

\* lines 147-211, after the result was read: what is put on the page
Interpret(result, target_name) ==
    IF Infeasible(result) THEN << ErrInfeasible >>
    ELSE
      LET weights  == result.weights
          rankdrop == result.rankdrop
          started  == << Success >>
      IN  IF ~CanReadFirst(rankdrop, "p") \/ ~CanReadFirst(rankdrop, "chisq")
          THEN started \o << Critical >>
          ELSE IF weights.null \/ ~CanDerive(weights)
          THEN started \o << Critical >>
          ELSE
            LET pValue  == rankdrop.rows[1].p
                x2      == rankdrop.rows[1].chisq
                derived == Derive(weights)
            IN  IF ~CanPlot(derived) \/ ~CanStats(derived)
                THEN started \o << Critical >>
                ELSE
                  LET shown == started \o << Chart(derived, pValue, x2, target_name) >>
                  IN  IF ~CanPivot(derived)
                      THEN shown \o << Critical >>
                      ELSE shown
                           \o << Download(convert_df_to_csv(derived, rankdrop),
                                          target_name),
                                 Balloons >>

----------------------------------------------------------------------------
(* The estimator *)

GoodFit == Table(FitCols, << [p |-> 5, chisq |-> 32] >>)

Fits == { GoodFit, NullTable, Table(FitCols, <<>>),
          Table({"chisq"}, << [p |-> 5, chisq |-> 32] >>) }

Val(w, se) == [weight |-> w, se |-> se]

RowVals == { Val(1, 1), Val(0, 0), Val(-1, 1) }

Behaviour(raises, null, cols, fit, vals) ==
    [raises |-> raises, null |-> null, cols |-> cols, fit |-> fit, vals |-> vals]

\* The behaviours of qpadm that are told apart: it stops with an error; it
\* returns NULL weights; it returns a weights table and a fit table, well formed
\* or not.
Oracles ==
    { Behaviour(TRUE, FALSE, WeightCols, GoodFit, << Val(1, 1), Val(1, 1) >>) }
    \cup { Behaviour(FALSE, TRUE, {}, f, << Val(1, 1), Val(1, 1) >>)
             : f \in {GoodFit, NullTable} }
    \cup { Behaviour(FALSE, FALSE, WeightCols, GoodFit, << v1, v2 >>)
             : v1 \in RowVals, v2 \in RowVals }
    \cup { Behaviour(FALSE, FALSE, WeightCols, f, << Val(1, 1), Val(0, 0) >>)
             : f \in Fits \ {GoodFit} }
    \cup { Behaviour(FALSE, FALSE, WeightCols \ {c}, GoodFit, << Val(1, 1), Val(0, 0) >>)
             : c \in {"se", "target"} }

\* the list qpadm returns for the target and the sources R holds
QpadmResult(orc, target, left) ==
    [set      |-> TRUE,
     weights  |-> IF orc.null THEN NullTable
                  ELSE Table(orc.cols,
                             [i \in 1..Len(left) |->
                                 [target |-> target,
                                  left   |-> left[i],
                                  weight |-> orc.vals[((i - 1) % Len(orc.vals)) + 1].weight,
                                  se     |-> orc.vals[((i - 1) % Len(orc.vals)) + 1].se]]),
     rankdrop |-> orc.fit]

NoResult == [set |-> FALSE, weights |-> NullTable, rankdrop |-> NullTable]

REnvInit == [prefix |-> "", target |-> <<>>, left |-> <<>>, right |-> <<>>,
             results |-> NoResult]

----------------------------------------------------------------------------
(* The inputs of a script execution *)

Sessions == 1..NumSessions

ConfigPrefixes == {"None", "", "data/v54"}

TargetInputs == { <<>>, <<"y">> }

Predefined(name) == [choice |-> "Use predefined list", name |-> name, text |-> <<>>]

Manual(text) == [choice |-> "Enter manually", name |-> "", text |-> text]

LeftInputs ==
    { Predefined("Europe"),
      Manual(<<>>),
      Manual(<< <<"a">> >>),
      Manual(<< <<"a">>, <<"SP">>, <<"SP", "b">> >>),
      Manual(<< <<"a">>, <<"a">> >>),
      Manual(<< <<"a", "DQ">> >>),
      Manual(<< <<"BS">> >>) }

RightInputs == { Predefined("Outgroups"), Manual(<<>>) }

NoLocals == [prefix_path |-> "None", target_name |-> <<>>, left_pops |-> <<>>,
             right_pops |-> <<>>, button |-> FALSE]

----------------------------------------------------------------------------
(* The script, one execution per session at a time *)

UnchangedPure == UNCHANGED <<config, oracle, calc, esc>>

\* the end of a script execution
Finish(s, shown) ==
    /\ pc' = [pc EXCEPT ![s] = "idle"]
    /\ out' = [out EXCEPT ![s] = out[s] \o shown]

\* A script execution without the button pressed (the page is opened, or a
\* widget changed): the libraries are loaded when the session holds no
\* r_env_setup_minimal (lines 9-19); the handler is skipped (line 120).
Load(s) ==
    /\ pc[s] = "idle"
    /\ \E loaded \in (IF session_state[s] = "absent" THEN BOOLEAN ELSE {TRUE}) :
        LET first == session_state[s] = "absent"
        IN  /\ session_state' = [session_state EXCEPT ![s] =
                  IF first THEN (IF loaded THEN "True" ELSE "False") ELSE @]
            /\ initAttempts' = IF first THEN initAttempts + 1 ELSE initAttempts
            /\ out' = [out EXCEPT ![s] =
                  IF first /\ ~loaded THEN << ErrStartup >> ELSE <<>>]
    /\ locals' = [locals EXCEPT ![s] = NoLocals]
    /\ UNCHANGED <<pc, R>>
    /\ UnchangedPure

\* A script execution with the button pressed, on a page an earlier execution
\* rendered: the key r_env_setup_minimal is there (line 9), the form is read
\* (lines 47-117) and the request is checked (lines 120-130).
Start(s) ==
    /\ pc[s] = "idle"
    /\ session_state[s] # "absent"
    /\ \E target_name \in TargetInputs, left \in LeftInputs, right \in RightInputs :
        LET l   == [prefix_path |-> config,
                    target_name |-> target_name,
                    left_pops   |-> Pops(left, predefined_left),
                    right_pops  |-> Pops(right, predefined_right),
                    button      |-> TRUE]
            way == Validate(session_state[s], l)
        IN  /\ locals' = [locals EXCEPT ![s] = l]
            /\ pc' = [pc EXCEPT ![s] = IF way = "run" THEN "assign prefix" ELSE "idle"]
            /\ out' = [out EXCEPT ![s] =
                          IF way = "uninitialized" THEN << ErrUninitialized >>
                          ELSE IF way = "no prefix" THEN << ErrNoPrefix >>
                          ELSE IF way = "incomplete" THEN << ErrIncomplete >>
                          ELSE << Info >>]
    /\ UNCHANGED <<session_state, initAttempts, R>>
    /\ UnchangedPure

\* r.assign('prefix', prefix_path): line 135
AssignPrefix(s) ==
    /\ pc[s] = "assign prefix"
    /\ R' = [R EXCEPT !.prefix = locals[s].prefix_path]
    /\ pc' = [pc EXCEPT ![s] = "assign target"]
    /\ UNCHANGED <<session_state, locals, out, initAttempts>>
    /\ UnchangedPure

\* r.assign('target', target_name): line 136
AssignTarget(s) ==
    /\ pc[s] = "assign target"
    /\ R' = [R EXCEPT !.target = locals[s].target_name]
    /\ pc' = [pc EXCEPT ![s] = "assign left"]
    /\ UNCHANGED <<session_state, locals, out, initAttempts>>
    /\ UnchangedPure

\* r(f'left = c({r_vector_left})'): lines 137-138; a syntax error is raised
AssignLeft(s) ==
    /\ pc[s] = "assign left"
    /\ LET ev == REval(RVector(locals[s].left_pops))
       IN  IF ev.ok
           THEN /\ R' = [R EXCEPT !.left = ev.value]
                /\ pc' = [pc EXCEPT ![s] = "assign right"]
                /\ out' = out
           ELSE /\ R' = R
                /\ Finish(s, << Critical >>)
    /\ UNCHANGED <<session_state, locals, initAttempts>>
    /\ UnchangedPure

\* r(f'right = c({r_vector_right})'): lines 139-140
AssignRight(s) ==
    /\ pc[s] = "assign right"
    /\ LET ev == REval(RVector(locals[s].right_pops))
       IN  IF ev.ok
           THEN /\ R' = [R EXCEPT !.right = ev.value]
                /\ pc' = [pc EXCEPT ![s] = "qpadm"]
                /\ out' = out
           ELSE /\ R' = R
                /\ Finish(s, << Critical >>)
    /\ UNCHANGED <<session_state, locals, initAttempts>>
    /\ UnchangedPure

\* r('results=qpadm(data=prefix, left=left, right=right, target=target, ...)'):
\* line 141, on the values R holds at this moment
Qpadm(s) ==
    /\ pc[s] = "qpadm"
    /\ IF oracle.raises
       THEN /\ R' = R
            /\ Finish(s, << Critical >>)
       ELSE /\ R' = [R EXCEPT !.results = QpadmResult(oracle, R.target, R.left)]
            /\ pc' = [pc EXCEPT ![s] = "read results"]
            /\ out' = out
    /\ UNCHANGED <<session_state, locals, initAttempts>>
    /\ UnchangedPure

\* result = r['results'] and all that follows it: lines 143-211
ReadResults(s) ==
    /\ pc[s] = "read results"
    /\ Finish(s, IF R.results.set
                 THEN Interpret(R.results, locals[s].target_name)
                 ELSE << Critical >>)
    /\ UNCHANGED <<session_state, locals, R, initAttempts>>
    /\ UnchangedPure

Step(s) ==
    \/ Load(s)
    \/ Start(s)
    \/ AssignPrefix(s)
    \/ AssignTarget(s)
    \/ AssignLeft(s)
    \/ AssignRight(s)
    \/ Qpadm(s)
    \/ ReadResults(s)

Next == \E s \in Sessions : Step(s)

----------------------------------------------------------------------------
(* The result transformation on its own, and the vector literal on its own *)

NoCsv == [header |-> <<>>, data |-> <<>>]

CalcIdle == [stage |-> "off", weights |-> NullTable, rankdrop |-> NullTable,
             derived |-> NullTable, plot_data |-> <<>>, stats_text |-> <<>>,
             csv |-> NoCsv]

EscIdle == [stage |-> "off", pops |-> <<>>, r_vector |-> <<>>, value |-> RError]

\* The process with one browser session.
Init ==
    /\ session_state = [s \in Sessions |-> "absent"]
    /\ pc = [s \in Sessions |-> IF s = 1 THEN "idle" ELSE "closed"]
    /\ locals = [s \in Sessions |-> NoLocals]
    /\ out = [s \in Sessions |-> <<>>]
    /\ R = REnvInit
    /\ initAttempts = 0
    /\ config \in ConfigPrefixes
    /\ oracle \in Oracles
    /\ calc = CalcIdle
    /\ esc = EscIdle

Spec == Init /\ [][Next]_vars

\* The process with NumSessions browser sessions, a configured dataset and an
\* estimator that answers with well formed tables.
InitShared ==
    /\ session_state = [s \in Sessions |-> "absent"]
    /\ pc = [s \in Sessions |-> "idle"]
    /\ locals = [s \in Sessions |-> NoLocals]
    /\ out = [s \in Sessions |-> <<>>]
    /\ R = REnvInit
    /\ initAttempts = 0
    /\ config = "data/v54"
    /\ oracle = Behaviour(FALSE, FALSE, WeightCols, GoodFit, << Val(1, 1), Val(0, 0) >>)
    /\ calc = CalcIdle
    /\ esc = EscIdle

SpecShared == InitShared /\ [][Next]_vars

UnchangedScript ==
    UNCHANGED <<session_state, pc, locals, out, R, initAttempts, config, oracle>>

InitClosed ==
    /\ session_state = [s \in Sessions |-> "absent"]
    /\ pc = [s \in Sessions |-> "closed"]
    /\ locals = [s \in Sessions |-> NoLocals]
    /\ out = [s \in Sessions |-> <<>>]
    /\ R = REnvInit
    /\ initAttempts = 0
    /\ config = "data/v54"
    /\ oracle = Behaviour(FALSE, FALSE, WeightCols, GoodFit, << Val(1, 1), Val(0, 0) >>)

\* Lines 153-198 on any weights table of up to MaxRows rows.
CalcTargets == { <<"x">>, <<"y">> }

CalcSources == { <<"a">>, <<"b">> }

CalcRows ==
    [target : CalcTargets, left : CalcSources,
     weight : (-1)..MaxWeight, se : 0..MaxSe]

InitReport ==
    /\ InitClosed
    /\ esc = EscIdle
    /\ \E rows \in SeqsUpTo(CalcRows, MaxRows) \ {<<>>} :
          calc = [CalcIdle EXCEPT !.stage = "input",
                                  !.weights = Table(WeightCols, rows),
                                  !.rankdrop = GoodFit]

\* line 155
DeriveStep ==
    /\ calc.stage = "input"
    /\ calc' = IF CanDerive(calc.weights)
               THEN [calc EXCEPT !.stage = "derived", !.derived = Derive(calc.weights)]
               ELSE [calc EXCEPT !.stage = "failed"]
    /\ UNCHANGED esc
    /\ UnchangedScript

\* lines 159-177
ComposeStep ==
    /\ calc.stage = "derived"
    /\ calc' = [calc EXCEPT !.stage = "composed",
                            !.plot_data = PlotData(calc.derived),
                            !.stats_text = StatsText(calc.derived,
                                                     calc.rankdrop.rows[1].p,
                                                     calc.rankdrop.rows[1].chisq)]
    /\ UNCHANGED esc
    /\ UnchangedScript

\* lines 190-200
AssembleStep ==
    /\ calc.stage = "composed"
    /\ calc' = [calc EXCEPT !.stage = "assembled",
                            !.csv = convert_df_to_csv(calc.derived, calc.rankdrop)]
    /\ UNCHANGED esc
    /\ UnchangedScript

NextReport == DeriveStep \/ ComposeStep \/ AssembleStep

SpecReport == InitReport /\ [][NextReport]_vars

\* Lines 137-138 on any list of up to MaxPops names of up to MaxNameLen characters.
EscChars == {"n", "DQ", "BS"}

EscNames == SeqsUpTo(EscChars, MaxNameLen) \ {<<>>}

InitEscape ==
    /\ InitClosed
    /\ calc = CalcIdle
    /\ \E pops \in SeqsUpTo(EscNames, MaxPops) \ {<<>>} :
          esc = [EscIdle EXCEPT !.stage = "input", !.pops = pops]

\* line 137
BuildVector ==
    /\ esc.stage = "input"
    /\ esc' = [esc EXCEPT !.stage = "built", !.r_vector = RVector(esc.pops)]
    /\ UNCHANGED calc
    /\ UnchangedScript

\* line 138
EvalVector ==
    /\ esc.stage = "built"
    /\ esc' = [esc EXCEPT !.stage = "evaluated", !.value = REval(esc.r_vector)]
    /\ UNCHANGED calc
    /\ UnchangedScript

NextEscape == BuildVector \/ EvalVector

SpecEscape == InitEscape /\ [][NextEscape]_vars

----------------------------------------------------------------------------
(* Properties *)

Running(s) == pc[s] \notin {"idle", "closed"}

\* all four parts of a request are there
Complete(l) ==
    /\ l.prefix_path \notin {"None", ""}
    /\ Len(l.target_name) >= 1
    /\ Len(l.left_pops) >= 1
    /\ Len(l.right_pops) >= 1

Kinds(shown) == {shown[i].kind : i \in 1..Len(shown)}

Failed(shown) == \E i \in 1..Len(shown) : shown[i] = Critical

\* C1: a session whose r_env_setup_minimal is not True never runs the pipeline:
\* every pressed button ends in the one message "R environment could not be
\* initialized", and while no session is initialised R's prefix, target, left,
\* right and results are never written.
C1_UninitializedFailsFast ==
    /\ \A s \in Sessions :
          session_state[s] # "True" =>
              /\ ~Running(s)
              /\ locals[s].button => out[s] = << ErrUninitialized >>
    /\ (\A s \in Sessions : session_state[s] # "True") => R = REnvInit

C1_Witness ==
    \E s \in Sessions :
        /\ session_state[s] = "False"
        /\ locals[s].button
        /\ Complete(locals[s])
        /\ out[s] = << ErrUninitialized >>

\* C2: in an initialised session a pressed button starts the pipeline (the
\* request is announced and the first call into R is due or done) exactly when
\* prefix, target, left list and right list are all there; otherwise the
\* execution ends with one error message and no call into R.
C2_RunsIffComplete ==
    \A s \in Sessions :
        (session_state[s] = "True" /\ locals[s].button) =>
            IF Complete(locals[s])
            THEN /\ Head(out[s]) = Info
                 /\ Running(s) \/ Len(out[s]) >= 2
            ELSE /\ ~Running(s)
                 /\ out[s] \in { << ErrNoPrefix >>, << ErrIncomplete >> }

C2_Witness ==
    \E s \in Sessions :
        /\ session_state[s] = "True"
        /\ locals[s].button
        /\ Len(locals[s].left_pops) = 2
        /\ Len(locals[s].right_pops) = 2
        /\ pc[s] = "qpadm"

C4_FailureShowsNothingElse ==
    \A s \in Sessions :
        (pc[s] = "idle" /\ Failed(out[s])) =>
            Kinds(out[s]) \cap {"success", "pyplot", "download_button"} = {}

\* C5: a list of names that each contain a double quote is evaluated by R to
\* that same list.
C5_QuotedNamesRoundTrip ==
    (esc.stage = "evaluated"
       /\ \A i \in 1..Len(esc.pops) : "DQ" \in Range(esc.pops[i]))
    => (esc.value.ok /\ esc.value.value = esc.pops)

\* C6: the table written has one data row per distinct target and, for the rows
\* of one target, 3 x (number of rows) + 3 columns.
C6_ExportShape ==
    calc.stage = "assembled" =>
        /\ Len(calc.csv.data) = Cardinality(TargetsOf(calc.weights.rows))
        /\ Cardinality(TargetsOf(calc.weights.rows)) = 1
              => Len(calc.csv.header) = 3 * Len(calc.weights.rows) + 3

\* C7: the derivation does not fail; it keeps target, left, weight and se of
\* every row and adds zscore = 0 where se = 0 and the quotient weight / se
\* elsewhere.
C7_ZScore ==
    calc.stage \in {"derived", "composed", "assembled", "failed"} =>
        /\ calc.stage # "failed"
        /\ Len(calc.derived.rows) = Len(calc.weights.rows)
        /\ \A i \in 1..Len(calc.weights.rows) :
              LET row == calc.weights.rows[i]
                  d   == calc.derived.rows[i]
              IN  /\ d.target = row.target /\ d.left = row.left
                  /\ d.weight = row.weight /\ d.se = row.se
                  /\ row.se = 0 => d.zscore = Zero
                  /\ row.se # 0 => /\ d.zscore.den > 0
                                   /\ d.zscore.num * row.se = row.weight * d.zscore.den

C7_Witness ==
    /\ calc.stage = "derived"
    /\ \E i, j \in 1..Len(calc.weights.rows) :
          /\ calc.weights.rows[i].se = 0 /\ calc.weights.rows[i].weight # 0
          /\ calc.weights.rows[j].se # 0 /\ calc.weights.rows[j].weight # 0

\* C8: the chart gets the rows of weight > 0, in order, and no other; the
\* statistics block starts with the p-value line and the chi-square line and
\* ends with one line per row, whatever its weight, in row order.
C8_ChartAndStats ==
    calc.stage \in {"composed", "assembled"} =>
        LET rows  == calc.derived.rows
            pos   == {i \in 1..Len(rows) : rows[i].weight > 0}
            stats == calc.stats_text
        IN  /\ Len(calc.plot_data) = Cardinality(pos)
            /\ \A k \in 1..Len(calc.plot_data) :
                  \E i \in pos :
                      /\ calc.plot_data[k] = rows[i]
                      /\ Cardinality({j \in pos : j < i}) = k - 1
            /\ Len(stats) = StatsHeaderLines + Len(rows)
            /\ stats[1].kind = "P-Value" /\ stats[1].value = FromInt(calc.rankdrop.rows[1].p)
            /\ stats[2].kind = "chisq" /\ stats[2].value = FromInt(calc.rankdrop.rows[1].chisq)
            /\ \A i \in 1..Len(rows) :
                  /\ stats[StatsHeaderLines + i].kind = "row"
                  /\ stats[StatsHeaderLines + i].source = rows[i].left
                  /\ stats[StatsHeaderLines + i].value = rows[i].zscore

C8_Witness ==
    /\ calc.stage = "composed"
    /\ Len(calc.derived.rows) = 2
    /\ calc.derived.rows[1].weight <= 0
    /\ calc.derived.rows[2].weight > 0
    /\ Len(calc.plot_data) = 1
    /\ Len(calc.stats_text) = StatsHeaderLines + 2

\* C9: the libraries are loaded at most once in the life of the process, and
\* once a load failed no session is initialised.
C9_InitializedOnce ==
    /\ initAttempts <= 1
    /\ (\E s \in Sessions : session_state[s] = "False")
          => \A s \in Sessions : session_state[s] # "True"

\* C10: at most one run is in flight, and qpadm runs on, and the results read
\* are those of, the lists of the run that calls it.
C10_OneRunAtATime ==
    /\ Cardinality({s \in Sessions : Running(s)}) <= 1
    /\ \A s \in Sessions :
          pc[s] \in {"qpadm", "read results"} =>
              /\ R.target = locals[s].target_name
              /\ R.left = REval(RVector(locals[s].left_pops)).value
              /\ R.right = REval(RVector(locals[s].right_pops)).value
    /\ \A s \in Sessions :
          pc[s] = "read results" =>
              R.results = QpadmResult(oracle, locals[s].target_name,
                                      REval(RVector(locals[s].left_pops)).value)

====
